---------------------------- MODULE Spec2Model ----------------------------
(***************************************************************************)
(* A model of src/lib/converter.js (class Converter): the option catalog   *)
(* built from the converter's help text, the parser of slash-delimited     *)
(* commands, the conversion runner with its timeout guard, the streaming   *)
(* runner and the process reaper.                                          *)
(*                                                                         *)
(* JavaScript values are modelled as follows.  Strings are TLA+ strings.   *)
(* The value undefined is the string JsUndefined and the boolean true      *)
(* stored in an options map is the string JsTrue; neither is a segment a   *)
(* command of the model can hold.  An object used as a map is a function   *)
(* whose domain is the set of its keys.                                    *)
(***************************************************************************)
EXTENDS Integers, Sequences, FiniteSets, TLC

VARIABLES
    ready,              \* this._ready: "pending", "fulfilled" or "rejected"
    helpText,           \* this.helpText: the help lines the converter printed
    thisOptions,        \* this.options: [defined, list]
    converterHelpText,  \* this.converterHelpText: the option lines of the usage document
    commands,           \* parseUrlCommand: its argument
    list,               \* parseUrlCommand: const list
    args,               \* parseUrlCommand: const args
    options,            \* parseUrlCommand: const options
    option,             \* parseUrlCommand: let option
    ppc,                \* parseUrlCommand: "idle", "loop", "returned" or "thrown"
    thrown,             \* parseUrlCommand: the message of the Error thrown
    job,                \* convert: the state of each call, by job
    fs,                 \* the paths that exist under the temporary directory
    microtasks,         \* the promise reactions queued, run before any other event
    stream,             \* convertToStream: the state of the call
    node                \* the server process: "up", or "down" after an uncaught exception

parserVars == <<ready, helpText, thisOptions, converterHelpText,
                commands, list, args, options, option, ppc, thrown>>

runnerVars == <<job, fs, microtasks>>

streamVars == <<stream, node>>

-----------------------------------------------------------------------------
(* Bounds of the model *)

\* The most chunks of standard error a converter process writes.
MaxChunks == 2

\* The longest command, in segments between slashes.
MaxSegments == 4

-----------------------------------------------------------------------------
(* JavaScript values *)

JsUndefined == "<undefined>"

JsTrue == "<true>"

\* The truthiness of a string, of undefined and of true.
Truthy(v) == v \notin {JsUndefined, ""}

EmptyMap == [k \in {} |-> JsUndefined]

\* object[key], undefined when the key is absent.
Get(m, k) == IF k \in DOMAIN m THEN m[k] ELSE JsUndefined

\* object[key] = value
Put(m, k, v) == [x \in (DOMAIN m) \cup {k} |-> IF x = k THEN v ELSE m[x]]

\* Array.prototype.shift: the element removed (undefined for an empty array)
\* and the array left.
ShiftValue(a) == IF a = <<>> THEN JsUndefined ELSE Head(a)

ShiftRest(a) == IF a = <<>> THEN <<>> ELSE Tail(a)

-----------------------------------------------------------------------------
(* The help text and the option catalog *)

\* A help line is kept as the pieces the pattern regexCommandHelp looks at:
\*   lead     the white space the line starts with ("" when it starts with none)
\*   short    the letter of a "-x, " part ("" when the line has none)
\*   long     the lower-case name after "--" ("" when the line has none)
\*   value    the text after "=" joined to the name ("" when the name has no "=")
\*   message  the text after the white space that follows ("" when the line ends)
HelpLine(lead, short, long, value, message) ==
    [lead |-> lead, short |-> short, long |-> long, value |-> value, message |-> message]

\* The help text of the converter: options with and without a short flag, with and
\* without a value, one whose description is on the next line, and lines of prose.
UnoconvHelp ==
    << HelpLine("", "", "", "", "usage: unoconv [options] file [file2 ..]"),
       HelpLine("  ", "e", "export", "name=value", ""),
       HelpLine("                         ", "", "", "", "set export filter options"),
       HelpLine("  ", "f", "format", "format", "specify the output format"),
       HelpLine("  ", "l", "listener", "", "start a permanent listener"),
       HelpLine("  ", "o", "output", "name", "output basename, filename or directory"),
       HelpLine("      ", "", "password", "secret", "provide a password to decrypt the document"),
       HelpLine("      ", "", "stdout", "", "write output to stdout"),
       HelpLine("  ", "T", "timeout", "secs", "timeout after secs if connection to listener fails") >>

\* The help text of a converter build that prints fewer options.
ReducedHelp ==
    << HelpLine("  ", "o", "output", "name", "output basename, filename or directory"),
       HelpLine("  ", "T", "timeout", "secs", "timeout after secs if connection to listener fails") >>

HelpTexts == {UnoconvHelp, ReducedHelp}

\* regexCommandHelp.exec(line): the white space, the optional short flag, the
\* name, the "=value" part (the pattern requires it) and a description.
RegexCommandHelp(line) ==
    [ matched |-> /\ line.lead # ""
                  /\ line.long # ""
                  /\ line.value # ""
                  /\ line.message # "",
      short |-> IF line.short = "" THEN JsUndefined ELSE line.short,
      option |-> line.long,
      valueStr |-> line.value,
      message |-> line.message ]

availableOptions ==
    <<"export", "format", "field", "import", "filter", "output", "filter", "password">>

Includes(a, x) == \E i \in 1..Len(a) : a[i] = x

\* pad(text, length): the text, filled with spaces on the right.
RECURSIVE Pad(_, _)
Pad(text, length) == IF Len(text) >= length THEN text ELSE Pad(text \o " ", length)

\* The usage line of a public option.
HelpEntry(opt, message) ==
    "  " \o (IF Truthy(opt.short) THEN "/" \o opt.short \o "," ELSE "   ")
         \o " /" \o Pad(opt.option \o "/<value>", 17) \o "  " \o message

\* The descriptor parseHelpInfo makes of a matching line.
Descriptor(result) ==
    [ short |-> result.short,
      option |-> result.option,
      hasValue |-> result.valueStr # "",
      isPublic |-> Includes(availableOptions, result.option) ]

\* parseHelpInfo: the descriptors and the usage lines of the matching lines, in order.
RECURSIVE ParseHelpInfo(_)
ParseHelpInfo(lines) ==
    IF lines = <<>> THEN [options |-> <<>>, help |-> <<>>]
    ELSE LET result == RegexCommandHelp(Head(lines))
             rest == ParseHelpInfo(Tail(lines))
             opt == Descriptor(result)
         IN  IF ~result.matched THEN rest
             ELSE [ options |-> <<opt>> \o rest.options,
                    help |-> IF opt.isPublic
                             THEN <<HelpEntry(opt, result.message)>> \o rest.help
                             ELSE rest.help ]

\* A constructor that would set a catalog before the help text is read.
NoOptionsPreset == [defined |-> TRUE, list |-> ParseHelpInfo(UnoconvHelp).options]

NoOptions == [defined |-> FALSE, list |-> <<>>]

-----------------------------------------------------------------------------
(* Command strings *)

\* A command string is a sequence of pieces: a slash, or a run of characters
\* holding no slash.
Slash == "/"

Segments == {"", "format", "f", "txt", "pdf", "bogus", "timeout", "stdout"}

RECURSIVE Join(_)
\* The string whose segments between slashes are segs.
Join(segs) ==
    IF Len(segs) = 0 THEN <<>>
    ELSE LET first == IF Head(segs) = "" THEN <<>> ELSE <<Head(segs)>>
         IN  IF Len(segs) = 1 THEN first
             ELSE first \o <<Slash>> \o Join(Tail(segs))

SegmentSeqs == UNION {[1..n -> Segments] : n \in 1..MaxSegments}

Commands == {Join(s) : s \in SegmentSeqs}

RECURSIVE SplitFrom(_, _)
\* The segments of the pieces left, cur being the segment read so far.
SplitFrom(pieces, cur) ==
    IF pieces = <<>> THEN <<cur>>
    ELSE IF Head(pieces) = Slash THEN <<cur>> \o SplitFrom(Tail(pieces), "")
    ELSE SplitFrom(Tail(pieces), cur \o Head(pieces))

\* commands.split('/')
Split(str) == SplitFrom(str, "")

-----------------------------------------------------------------------------
(* parseUrlCommand *)

\* The index of the first catalog entry that o => o.option === option ||
\* o.short === option accepts, 0 when there is none (or no catalog yet).
FindIndex(catalog, name) ==
    LET hits == {i \in 1..Len(catalog.list) :
                    catalog.list[i].option = name \/ catalog.list[i].short = name}
    IN  IF ~catalog.defined \/ hits = {} THEN 0
        ELSE CHOOSE i \in hits : \A k \in hits : i <= k

\* An error that would not name the segment.
InvalidOptionUnnamed(name) == "invalid option"

InvalidOption(name) == "invalid option '" \o name \o "'"

\* A parser that would push every name after two dashes.
FlagAlwaysLong(name) == "--" \o name

\* The flag pushed for a name.
Flag(name) == (IF Len(name) = 1 THEN "-" ELSE "--") \o name

\* A parser that would pass the format on as the caller wrote it.
ArgValueUntranslated(name, value) == value

\* The argument pushed for the value of an option.
ArgValue(name, value) == IF name = "format" /\ value = "txt" THEN "text" ELSE value

\* A parser that would push no argument for a value that is missing.
PushOptionSkipsMissing(argv, name, define, value) ==
    IF define.hasValue /\ value # JsUndefined
    THEN argv \o <<Flag(name), ArgValue(define.option, value)>>
    ELSE Append(argv, Flag(name))

\* The arguments after the pushes of one turn of the loop.
PushOption(argv, name, define, value) ==
    IF define.hasValue
    THEN argv \o <<Flag(name), ArgValue(define.option, value)>>
    ELSE Append(argv, Flag(name))

\* A parser that would return the options map as the loop left it.
WithoutDefaultFormat(opts) == opts

\* The options map returned.
WithDefaultFormat(opts) ==
    IF ~Truthy(Get(opts, "format")) THEN Put(opts, "format", "pdf") ELSE opts

\* init(): exec('unoconv --help') succeeded and printed text on standard error.
\* parseUrlCommand runs to its end without a break, so the promise settles
\* between two calls.
InitResolve(text) ==
    /\ ready = "pending"
    /\ ppc = "idle"
    /\ ready' = "fulfilled"
    /\ helpText' = text
    /\ thisOptions' = [defined |-> TRUE, list |-> ParseHelpInfo(text).options]
    /\ converterHelpText' = ParseHelpInfo(text).help
    /\ UNCHANGED <<commands, list, args, options, option, ppc, thrown>>

\* init(): exec('unoconv --help') failed.
InitReject ==
    /\ ready = "pending"
    /\ ppc = "idle"
    /\ ready' = "rejected"
    /\ UNCHANGED <<helpText, thisOptions, converterHelpText,
                   commands, list, args, options, option, ppc, thrown>>

\* parseUrlCommand(commands), up to the loop.
ParseUrlCommand(str) ==
    /\ ppc = "idle"
    /\ commands' = str
    /\ list' = ShiftRest(Split(str))
    /\ option' = ShiftValue(Split(str))
    /\ args' = <<>>
    /\ options' = EmptyMap
    /\ ppc' = "loop"
    /\ thrown' = ""
    /\ UNCHANGED <<ready, helpText, thisOptions, converterHelpText>>

\* One turn of the loop.
ParseOption ==
    /\ ppc = "loop"
    /\ Truthy(option)
    /\ LET i == FindIndex(thisOptions, option)
           define == thisOptions.list[i]
           value == ShiftValue(list)
       IN  IF i = 0
           THEN /\ ppc' = "thrown"
                /\ thrown' = InvalidOption(option)
                /\ UNCHANGED <<list, args, options, option>>
           ELSE /\ args' = PushOption(args, option, define, value)
                /\ IF define.hasValue
                   THEN /\ options' = Put(options, define.option, value)
                        /\ option' = ShiftValue(ShiftRest(list))
                        /\ list' = ShiftRest(ShiftRest(list))
                   ELSE /\ options' = Put(options, define.option, JsTrue)
                        /\ option' = ShiftValue(list)
                        /\ list' = ShiftRest(list)
                /\ UNCHANGED <<ppc, thrown>>
    /\ UNCHANGED <<ready, helpText, thisOptions, converterHelpText, commands>>

\* The loop ends and the Parsed Command is returned.
ParseReturn ==
    /\ ppc = "loop"
    /\ ~Truthy(option)
    /\ options' = WithDefaultFormat(options)
    /\ ppc' = "returned"
    /\ UNCHANGED <<ready, helpText, thisOptions, converterHelpText,
                   commands, list, args, option, thrown>>

\* The caller has taken the Parsed Command, or caught the Error: the locals of
\* the call are gone.
ParseUrlCommandEnd ==
    /\ ppc \in {"returned", "thrown"}
    /\ commands' = <<>>
    /\ list' = <<>>
    /\ args' = <<>>
    /\ options' = EmptyMap
    /\ option' = JsUndefined
    /\ ppc' = "idle"
    /\ thrown' = ""
    /\ UNCHANGED <<ready, helpText, thisOptions, converterHelpText>>

-----------------------------------------------------------------------------
(* Paths *)

\* A path is kept as its directory and its last component.
Path(dir, base) == [dir |-> dir, base |-> base]

\* The path as a string.
Str(p) == p.dir \o "/" \o p.base

\* A file name is kept as its directory, its name and its extension:
\* path.parse(file).name is the name.
File(dir, name, ext) == [dir |-> dir, name |-> name, ext |-> ext]

PathParseName(file) == file.name

FileStr(file) == file.dir \o "/" \o file.name \o file.ext

\* os.tmpdir()
TmpDir == Path("", "tmp")

NoPath == Path("", "")

-----------------------------------------------------------------------------
(* convert *)

Jobs == {1}

DefaultTimeout == 600

InputFiles == {File("/uploads", "doc", ".docx"), File("/uploads", "report", ".odt")}

\* The options a caller passes: the format (parseUrlCommand always sets one), and
\* perhaps an output name and a timeout.
ConvertOptions ==
    {[format |-> f] : f \in {"pdf", "html"}}
    \cup {[format |-> f, output |-> o] :
            f \in {"pdf", "html"}, o \in {File("", "result", ".pdf")}}
    \cup {[format |-> f, timeout |-> t] : f \in {"pdf", "html"}, t \in {0, 5}}

\* The arguments parseUrlCommand makes of format/<format>.
ArgsOf(opts) == <<"--format", ArgValue("format", opts.format)>>

Has(opts, key) == key \in DOMAIN opts

IsHtml(opts) == Has(opts, "format") /\ opts.format = "html"

OutputDirPath(inputFile, opts) ==
    IF IsHtml(opts) THEN Path(Str(TmpDir), PathParseName(inputFile)) ELSE TmpDir

OutputFile(inputFile, opts) ==
    Path(Str(OutputDirPath(inputFile, opts)),
         PathParseName(IF Has(opts, "output") THEN opts.output ELSE inputFile)
            \o "." \o opts.format)

\* A runner that would ignore options.timeout.
TimeoutIgnoresOption(opts) == DefaultTimeout

\* options.timeout > 0 ? options.timeout : 600
Timeout(opts) == IF Has(opts, "timeout") /\ opts.timeout > 0 THEN opts.timeout ELSE DefaultTimeout

\* outputDirPath + '.zip'
ArchiveFilePath(outputDirPath) == Path(outputDirPath.dir, outputDirPath.base \o ".zip")

\* The k-th chunk a converter process writes on standard error.
StderrChunk(k) == "stderr#" \o ToString(k) \o ";"

RECURSIVE BufferConcat(_)
\* Buffer.concat(errors).toString()
BufferConcat(chunks) ==
    IF chunks = <<>> THEN "" ELSE Head(chunks) \o BufferConcat(Tail(chunks))

NoError == [kind |-> "none", text |-> "", timeout |-> 0]

\* new Error(Buffer.concat(errors).toString())
StderrError(chunks) == [kind |-> "stderr", text |-> BufferConcat(chunks), timeout |-> 0]

\* new Error(`No result from conversion (probably timed out after ${timeout}s)`)
NoResultError(timeout) == [kind |-> "noresult", text |-> "", timeout |-> timeout]

Pending == [state |-> "pending", value |-> NoPath, error |-> NoError]

Resolved(path) == [state |-> "resolved", value |-> path, error |-> NoError]

Rejected(error) == [state |-> "rejected", value |-> NoPath, error |-> error]

NewJob ==
    [ child |-> "none",          \* the converter process: none, running, killed, exited
      exit |-> "none",           \* how it exited: code0, code1 or SIGTERM
      inputFile |-> File("", "", ""),
      args |-> <<>>,
      options |-> [format |-> ""],
      outputDirPath |-> NoPath,
      outputFile |-> NoPath,
      timeout |-> 0,
      errors |-> <<>>,           \* const errors
      timer |-> "none",          \* the timeout guard: none, armed, fired
      archive |-> "none",        \* the zip archive: none, writing, closed
      rimraf |-> "none",         \* the removal of the directory: none, running, done
      conversion |-> Pending,    \* the promise returned
      reactions |-> <<>>,        \* the handlers attached to it, in order
      reaper |-> 0,              \* the calls of killSoffice
      reaped |-> 0,              \* those of them whose process lookup has called back
      soffice |-> "none",        \* the soffice.bin worker that serves the job: none, up, killed
      touched |-> {},            \* the paths the job has written, checked or removed
      observed |-> "none" ]      \* what the caller's handler was run with

\* A runner that would attach no handler of its own.
NoOwnReactions == <<>>

\* The handlers convert attaches to the promise before it returns it.
OwnReactions == <<"killSoffice">>

\* The reaction jobs queued when the promise of job j settles: one for each
\* handler, in the order the handlers were attached.
ReactionJobs(j, reactions) == [i \in 1..Len(reactions) |-> [job |-> j, handler |-> reactions[i]]]

\* A handler of 'exit' that would take a positive exit code for a failure.
ExitOutcomeChecksCode(errors, outputExists, isHtml, outputFile, timeout, exit) ==
    IF Len(errors) > 0 \/ exit = "code1"
    THEN [conversion |-> Rejected(StderrError(errors)), archive |-> FALSE]
    ELSE IF ~outputExists THEN [conversion |-> Rejected(NoResultError(timeout)), archive |-> FALSE]
    ELSE IF isHtml THEN [conversion |-> Pending, archive |-> TRUE]
    ELSE [conversion |-> Resolved(outputFile), archive |-> FALSE]

\* What the handler of 'exit' does with the promise: the state of the promise
\* after it, and whether the archive is started.
ExitOutcome(errors, outputExists, isHtml, outputFile, timeout, exit) ==
    IF Len(errors) > 0 THEN [conversion |-> Rejected(StderrError(errors)), archive |-> FALSE]
    ELSE IF ~outputExists THEN [conversion |-> Rejected(NoResultError(timeout)), archive |-> FALSE]
    ELSE IF isHtml THEN [conversion |-> Pending, archive |-> TRUE]
    ELSE [conversion |-> Resolved(outputFile), archive |-> FALSE]

\* The files a converter process writes: the output file and, for html, the
\* directory that holds it.
Produced(j) ==
    {job[j].outputFile} \cup
    (IF IsHtml(job[j].options) THEN {job[j].outputDirPath} ELSE {})

\* The record that a job has touched these paths, and how: write, check or remove.
Touch(paths, how) == {[path |-> p, how |-> how] : p \in paths}

\* rimraf(dir): the directory and what it holds are gone.
Rimraf(files, dir) == {p \in files : p # dir /\ p.dir # Str(dir)}

\* The promise of job j settles: its reaction jobs are queued.
Settle(j, conversion) ==
    IF conversion.state = "pending" THEN microtasks
    ELSE microtasks \o ReactionJobs(j, job[j].reactions)

\* Events are handled one at a time, and the reaction jobs queued are all
\* run before the next event is.
EventLoopIdle == microtasks = <<>>

\* convert(inputFile, args, options), up to its return.
Convert(j, inputFile, opts) ==
    /\ EventLoopIdle
    /\ job[j].child = "none"
    /\ job' = [job EXCEPT ![j] =
                [ NewJob EXCEPT
                    !.child = "running",
                    !.inputFile = inputFile,
                    !.options = opts,
                    !.outputDirPath = OutputDirPath(inputFile, opts),
                    !.outputFile = OutputFile(inputFile, opts),
                    !.timeout = Timeout(opts),
                    !.args = ArgsOf(opts) \o <<"--output", Str(OutputFile(inputFile, opts)),
                                               FileStr(inputFile)>>,
                    !.timer = "armed",
                    !.soffice = "up",
                    !.reactions = OwnReactions ]]
    /\ UNCHANGED <<fs, microtasks>>

\* The caller attaches its handlers to the promise convert returned.
CallerAttach(j) ==
    /\ EventLoopIdle
    /\ job[j].child # "none"
    /\ ~Includes(job[j].reactions, "caller")
    /\ job' = [job EXCEPT ![j].reactions = Append(@, "caller")]
    /\ microtasks' = IF job[j].conversion.state = "pending" THEN microtasks
                     ELSE Append(microtasks, [job |-> j, handler |-> "caller"])
    /\ UNCHANGED fs

\* The converter process, served by its soffice.bin worker, writes its output.
ChildWritesOutput(j) ==
    /\ EventLoopIdle
    /\ job[j].child = "running"
    /\ job[j].soffice = "up"
    /\ Touch(Produced(j), "write") \cap job[j].touched = {}
    /\ fs' = fs \cup Produced(j)
    /\ job' = [job EXCEPT ![j].touched = @ \cup Touch(Produced(j), "write")]
    /\ UNCHANGED microtasks

\* handler.stderr.on('data'): a chunk the converter process wrote arrives.
StderrData(j) ==
    /\ EventLoopIdle
    /\ job[j].child # "none"
    /\ Len(job[j].errors) < MaxChunks
    /\ job' = [job EXCEPT ![j].errors = Append(@, StderrChunk(Len(@) + 1))]
    /\ UNCHANGED <<fs, microtasks>>

\* handler.on('exit') for an exit reported as how.
OnExit(j, how) ==
    LET outcome == ExitOutcome(job[j].errors, job[j].outputFile \in fs,
                               IsHtml(job[j].options), job[j].outputFile,
                               job[j].timeout, how)
        checked == IF Len(job[j].errors) > 0 THEN {}
                   ELSE Touch({job[j].outputFile}, "check")
        archived == IF outcome.archive
                    THEN Touch({ArchiveFilePath(job[j].outputDirPath)}, "write")
                    ELSE {}
    IN  /\ job' = [job EXCEPT ![j].child = "exited",
                              ![j].exit = how,
                              ![j].conversion = outcome.conversion,
                              ![j].archive = IF outcome.archive THEN "writing" ELSE @,
                              ![j].touched = @ \cup checked \cup archived]
        /\ microtasks' = Settle(j, outcome.conversion)
        /\ UNCHANGED fs

\* The converter process ends of itself, with an exit code.
ChildExit(j, how) ==
    /\ EventLoopIdle
    /\ job[j].child = "running"
    /\ how \in {"code0", "code1"}
    /\ OnExit(j, how)

\* The converter process ends of the signal handler.kill() sent.
ChildKilled(j) ==
    /\ EventLoopIdle
    /\ job[j].child = "killed"
    /\ OnExit(j, "SIGTERM")

\* A kill that would signal the process whatever its state, so that a process
\* that has exited would be reported as exiting again.
HandlerKillAnyway(child) == "killed"

\* handler.kill(): a process still running is signalled; one that was
\* signalled or has exited is left as it is.
HandlerKill(child) == IF child = "running" THEN "killed" ELSE child

\* The timeout guard: the timer, which nothing cancels, expires and calls
\* handler.kill().
TimeoutFires(j) ==
    /\ EventLoopIdle
    /\ job[j].timer = "armed"
    /\ job' = [job EXCEPT ![j].timer = "fired",
                          ![j].child = HandlerKill(@)]
    /\ UNCHANGED <<fs, microtasks>>

\* archiveFileStream.on('close'): the archive is written; the removal of the
\* directory is started and the promise is resolved.
ArchiveClose(j) ==
    /\ EventLoopIdle
    /\ job[j].archive = "writing"
    /\ fs' = fs \cup {ArchiveFilePath(job[j].outputDirPath)}
    /\ job' = [job EXCEPT ![j].archive = "closed",
                          ![j].rimraf = "running",
                          ![j].touched = @ \cup Touch({job[j].outputDirPath}, "remove"),
                          ![j].conversion = Resolved(ArchiveFilePath(job[j].outputDirPath))]
    /\ microtasks' = Settle(j, Resolved(ArchiveFilePath(job[j].outputDirPath)))

\* The archive fails (archiver emits 'error', which has no listener): the
\* exception is uncaught, and the server process ends unless the application
\* has installed a handler of uncaught exceptions; the stream is never closed.
ArchiveError(j, survives) ==
    /\ EventLoopIdle
    /\ job[j].archive = "writing"
    /\ job' = [job EXCEPT ![j].archive = "failed"]
    /\ node' = IF survives THEN node ELSE "down"
    /\ UNCHANGED <<fs, microtasks>>

\* rimraf has removed the directory and calls back.
RimrafDone(j) ==
    /\ EventLoopIdle
    /\ job[j].rimraf = "running"
    /\ fs' = Rimraf(fs, job[j].outputDirPath)
    /\ job' = [job EXCEPT ![j].rimraf = "done"]
    /\ UNCHANGED microtasks

\* rimraf fails and calls back with an error, which the callback does not look
\* at: the directory stays.
RimrafError(j) ==
    /\ EventLoopIdle
    /\ job[j].rimraf = "running"
    /\ job' = [job EXCEPT ![j].rimraf = "failed"]
    /\ UNCHANGED <<fs, microtasks>>

\* The first reaction job queued is run: the handler convert attached calls
\* killSoffice() when the promise was rejected; the caller's handler sees the
\* outcome.
RunMicrotask ==
    /\ microtasks # <<>>
    /\ LET j == Head(microtasks).job
           rejected == job[j].conversion.state = "rejected"
       IN  job' = IF Head(microtasks).handler = "killSoffice"
                  THEN [job EXCEPT ![j].reaper = IF rejected THEN @ + 1 ELSE @]
                  ELSE [job EXCEPT ![j].observed = job[j].conversion.state]
    /\ microtasks' = Tail(microtasks)
    /\ UNCHANGED fs

\* killSoffice, the callback of ps.lookup for a call made for job j: every
\* soffice.bin process of the user is killed, whatever job it serves.
KillSofficeLookup(j) ==
    /\ EventLoopIdle
    /\ job[j].reaped < job[j].reaper
    /\ job' = [k \in DOMAIN job |->
                [job[k] EXCEPT !.soffice = IF @ = "up" THEN "killed" ELSE @,
                               !.reaped = IF k = j THEN @ + 1 ELSE @]]
    /\ UNCHANGED <<fs, microtasks, node>>

\* killSoffice, the callback of ps.lookup called with an error: throw new
\* Error(err) leaves the callback uncaught.
KillSofficeLookupError(j, survives) ==
    /\ EventLoopIdle
    /\ job[j].reaped < job[j].reaper
    /\ job' = [job EXCEPT ![j].reaped = @ + 1]
    /\ node' = IF survives THEN node ELSE "down"
    /\ UNCHANGED <<fs, microtasks>>

-----------------------------------------------------------------------------
(* convertToStream *)

StreamFormats == {"pdf", "txt"}

NoStream ==
    [ child |-> "none",         \* the converter process: none, running, exited
      exit |-> "none",          \* how it exited: code0, code1 or SIGTERM (code null)
      inputFile |-> File("", "", ""),
      inputExists |-> FALSE,    \* whether the input file is on disk
      args |-> <<>>,
      encoding |-> "",          \* output.setEncoding
      errors |-> "",            \* const errors = ''
      stderr |-> <<>>,          \* the chunks handler.stderr has emitted
      written |-> 0,            \* the chunks the process wrote on standard output
      piped |-> 0,              \* those that handler.stdout.pipe(output) has passed on
      output |-> <<>>,          \* the events of the stream returned, in order
      uncaught |-> <<>> ]       \* the exceptions thrown out of event handlers

\* name += data where name is declared const: the assignment throws and the
\* constant keeps its value.
AssignToConst(old, new) ==
    [value |-> old, threw |-> "TypeError: Assignment to constant variable."]

\* The k-th chunk a converter process writes on standard output.
StdoutChunk(k) == "stdout#" \o ToString(k) \o ";"

DataEvent(chunk) == [event |-> "data", payload |-> chunk]

ErrorEvent(payload) == [event |-> "error", payload |-> payload]

\* The events the handler of 'exit' emits on the stream returned.
StreamExitEvents(how, errors) ==
    IF how = "code1" \/ Len(errors) > 0 THEN <<ErrorEvent(errors)>> ELSE <<>>

\* convertToStream(inputFile, args, options), up to its return.
ConvertToStream(inputFile, format) ==
    /\ node = "up"
    /\ stream.child = "none"
    /\ stream' = [ NoStream EXCEPT
                    !.child = "running",
                    !.inputFile = inputFile,
                    !.inputExists = TRUE,
                    !.args = <<"--format", ArgValue("format", format),
                               "--stdout", FileStr(inputFile)>>,
                    !.encoding = IF format = "txt" THEN "utf8" ELSE "" ]
    /\ UNCHANGED node

\* The converter process writes a chunk on standard output.
StreamChildWrites ==
    /\ node = "up"
    /\ stream.child = "running"
    /\ stream.written < MaxChunks
    /\ stream' = [stream EXCEPT !.written = @ + 1]
    /\ UNCHANGED node

\* handler.stdout.pipe(output): a chunk written is passed on to the stream returned.
StreamStdoutData ==
    /\ node = "up"
    /\ stream.piped < stream.written
    /\ stream' = [stream EXCEPT !.piped = @ + 1,
                                !.output = Append(@, DataEvent(StdoutChunk(stream.piped + 1)))]
    /\ UNCHANGED node

\* handler.stderr.on('data'): errors += data.  The exception leaves the handler
\* uncaught: the server process ends, unless the application has installed a
\* handler of uncaught exceptions.
StreamStderrData(survives) ==
    /\ node = "up"
    /\ stream.child # "none"
    /\ Len(stream.stderr) < MaxChunks
    /\ LET data == StderrChunk(Len(stream.stderr) + 1)
           assigned == AssignToConst(stream.errors, stream.errors \o data)
       IN  /\ stream' = [stream EXCEPT
                            !.stderr = Append(@, data),
                            !.errors = assigned.value,
                            !.uncaught = IF assigned.threw = "" THEN @
                                         ELSE Append(@, assigned.threw)]
           /\ node' = IF assigned.threw # "" /\ ~survives THEN "down" ELSE node

\* handler.on('exit'): the input file is deleted, and an error event is emitted
\* for a positive exit code or a non-empty errors.
StreamChildExit(how) ==
    /\ node = "up"
    /\ stream.child = "running"
    /\ stream' = [stream EXCEPT
                    !.child = "exited",
                    !.exit = how,
                    !.inputExists = FALSE,
                    !.output = @ \o StreamExitEvents(how, stream.errors)]
    /\ UNCHANGED node

\* The caller is done with the stream returned.
StreamEnd ==
    /\ node = "up"
    /\ stream.child = "exited"
    /\ stream.piped = stream.written
    /\ stream' = NoStream
    /\ UNCHANGED node

-----------------------------------------------------------------------------

vars == <<parserVars, runnerVars, streamVars>>

StreamInit ==
    /\ stream = NoStream
    /\ node = "up"

RunnerInit ==
    /\ job = [j \in Jobs |-> NewJob]
    /\ fs = {}
    /\ microtasks = <<>>

ParserInit ==
    /\ ready = "pending"
    /\ helpText = <<>>
    /\ thisOptions = NoOptions
    /\ converterHelpText = <<>>
    /\ commands = <<>>
    /\ list = <<>>
    /\ args = <<>>
    /\ options = EmptyMap
    /\ option = JsUndefined
    /\ ppc = "idle"
    /\ thrown = ""

Init == ParserInit /\ RunnerInit /\ StreamInit

\* The server process is running.
Up == node = "up"

Next ==
    \/ \E j \in Jobs, inputFile \in InputFiles, opts \in ConvertOptions :
            Up /\ Convert(j, inputFile, opts) /\ UNCHANGED <<parserVars, streamVars>>
    \/ \E j \in Jobs : Up /\ CallerAttach(j) /\ UNCHANGED <<parserVars, streamVars>>
    \/ \E j \in Jobs : Up /\ ChildWritesOutput(j) /\ UNCHANGED <<parserVars, streamVars>>
    \/ \E j \in Jobs : Up /\ StderrData(j) /\ UNCHANGED <<parserVars, streamVars>>
    \/ \E j \in Jobs, how \in {"code0", "code1"} :
            Up /\ ChildExit(j, how) /\ UNCHANGED <<parserVars, streamVars>>
    \/ \E j \in Jobs : Up /\ ChildKilled(j) /\ UNCHANGED <<parserVars, streamVars>>
    \/ \E j \in Jobs : Up /\ TimeoutFires(j) /\ UNCHANGED <<parserVars, streamVars>>
    \/ \E j \in Jobs : Up /\ ArchiveClose(j) /\ UNCHANGED <<parserVars, streamVars>>
    \/ \E j \in Jobs, survives \in BOOLEAN :
            Up /\ ArchiveError(j, survives) /\ UNCHANGED <<parserVars, stream>>
    \/ \E j \in Jobs : Up /\ RimrafDone(j) /\ UNCHANGED <<parserVars, streamVars>>
    \/ \E j \in Jobs : Up /\ RimrafError(j) /\ UNCHANGED <<parserVars, streamVars>>
    \/ Up /\ RunMicrotask /\ UNCHANGED <<parserVars, streamVars>>
    \/ \E j \in Jobs : Up /\ KillSofficeLookup(j) /\ UNCHANGED <<parserVars, stream>>
    \/ \E j \in Jobs, survives \in BOOLEAN :
            Up /\ KillSofficeLookupError(j, survives) /\ UNCHANGED <<parserVars, stream>>

Spec == Init /\ [][Next]_vars

\* The scheduling of the runner: a timer that is armed expires, a process that
\* was signalled exits, an archive being written is closed, a removal and a
\* process lookup that were started call back, and a reaction that is queued is
\* run.  A process need not exit of itself, and nothing need fail.
Fairness ==
    /\ WF_vars(\E j \in Jobs : Up /\ TimeoutFires(j) /\ UNCHANGED <<parserVars, streamVars>>)
    /\ WF_vars(\E j \in Jobs : Up /\ ChildKilled(j) /\ UNCHANGED <<parserVars, streamVars>>)
    /\ WF_vars(\E j \in Jobs : Up /\ ArchiveClose(j) /\ UNCHANGED <<parserVars, streamVars>>)
    /\ WF_vars(\E j \in Jobs : Up /\ RimrafDone(j) /\ UNCHANGED <<parserVars, streamVars>>)
    /\ WF_vars(\E j \in Jobs : Up /\ KillSofficeLookup(j) /\ UNCHANGED <<parserVars, stream>>)
    /\ WF_vars(Up /\ RunMicrotask /\ UNCHANGED <<parserVars, streamVars>>)

FairSpec == Spec /\ Fairness

\* Two calls of convert, which may overlap or follow one another, on one
\* temporary directory.
Pool == {1, 2}

\* The options their callers pass: a format, and perhaps an output name.
PoolOptions == {opts \in ConvertOptions : ~Has(opts, "timeout")}

PoolInit ==
    /\ ParserInit
    /\ StreamInit
    /\ job = [j \in Pool |-> NewJob]
    /\ fs = {}
    /\ microtasks = <<>>

PoolNext ==
    \/ \E j \in Pool, inputFile \in InputFiles, opts \in PoolOptions :
            Up /\ Convert(j, inputFile, opts) /\ UNCHANGED <<parserVars, streamVars>>
    \/ \E j \in Pool : Up /\ ChildWritesOutput(j) /\ UNCHANGED <<parserVars, streamVars>>
    \/ \E j \in Pool : Up /\ StderrData(j) /\ UNCHANGED <<parserVars, streamVars>>
    \/ \E j \in Pool, how \in {"code0", "code1"} :
            Up /\ ChildExit(j, how) /\ UNCHANGED <<parserVars, streamVars>>
    \/ \E j \in Pool : Up /\ ChildKilled(j) /\ UNCHANGED <<parserVars, streamVars>>
    \/ \E j \in Pool : Up /\ TimeoutFires(j) /\ UNCHANGED <<parserVars, streamVars>>
    \/ \E j \in Pool : Up /\ ArchiveClose(j) /\ UNCHANGED <<parserVars, streamVars>>
    \/ \E j \in Pool : Up /\ RimrafDone(j) /\ UNCHANGED <<parserVars, streamVars>>
    \/ Up /\ RunMicrotask /\ UNCHANGED <<parserVars, streamVars>>
    \/ \E j \in Pool : Up /\ KillSofficeLookup(j) /\ UNCHANGED <<parserVars, stream>>

PoolSpec == PoolInit /\ [][PoolNext]_vars

ParserNext ==
    \/ \E text \in HelpTexts : InitResolve(text) /\ UNCHANGED <<runnerVars, streamVars>>
    \/ InitReject /\ UNCHANGED <<runnerVars, streamVars>>
    \/ /\ ppc = "idle"
       /\ \E str \in Commands : ParseUrlCommand(str) /\ UNCHANGED <<runnerVars, streamVars>>
    \/ ParseOption /\ UNCHANGED <<runnerVars, streamVars>>
    \/ ParseReturn /\ UNCHANGED <<runnerVars, streamVars>>
    \/ ParseUrlCommandEnd /\ UNCHANGED <<runnerVars, streamVars>>

ParserSpec == Init /\ [][ParserNext]_vars

StreamNext ==
    \/ \E inputFile \in InputFiles, format \in StreamFormats :
            ConvertToStream(inputFile, format) /\ UNCHANGED <<parserVars, runnerVars>>
    \/ StreamChildWrites /\ UNCHANGED <<parserVars, runnerVars>>
    \/ StreamStdoutData /\ UNCHANGED <<parserVars, runnerVars>>
    \/ \E survives \in BOOLEAN : StreamStderrData(survives) /\ UNCHANGED <<parserVars, runnerVars>>
    \/ \E how \in {"code0", "code1", "SIGTERM"} :
            StreamChildExit(how) /\ UNCHANGED <<parserVars, runnerVars>>
    \/ StreamEnd /\ UNCHANGED <<parserVars, runnerVars>>

StreamSpec == Init /\ [][StreamNext]_vars

-----------------------------------------------------------------------------
(* Properties of convert *)

\* The timeout a job is configured with: options.timeout when positive, else 600.
ConfiguredTimeout(opts) ==
    IF "timeout" \in DOMAIN opts /\ opts.timeout > 0 THEN opts.timeout ELSE 600

\* The process of job j, still running when the timeout guard fired, exits in
\* this step.
ExitsAfterTimeout(j) == job[j].child = "killed" /\ job'[j].child = "exited"

\* The process of job j exits in this step.
Exits(j) == job[j].child \in {"running", "killed"} /\ job'[j].child = "exited"

\* C1, as claimed: a job whose process is still running when the timeout elapses
\* and whose output file does not exist when the process exits is rejected with
\* the timed-out error carrying the configured timeout, and with no other error.
C1_TimedOutWheneverNoOutput ==
    [][\A j \in Jobs :
        (ExitsAfterTimeout(j) /\ job[j].outputFile \notin fs)
            => job'[j].conversion = Rejected(NoResultError(ConfiguredTimeout(job[j].options)))]_vars

\* C1, amended: such a job is rejected with the timed-out error carrying the
\* configured timeout when no standard error was captured before the exit; when
\* some was, it is rejected with the captured text instead.
C1_TimedOutWhenNoOutputAndNoStderr ==
    [][\A j \in Jobs :
        (ExitsAfterTimeout(j) /\ job[j].outputFile \notin fs)
            => IF job[j].errors = <<>>
               THEN job'[j].conversion =
                        Rejected(NoResultError(ConfiguredTimeout(job[j].options)))
               ELSE /\ job'[j].conversion.state = "rejected"
                    /\ job'[j].conversion.error.kind = "stderr"]_vars

\* C1, witness: a job configured with a timeout of 5, killed by the guard, with
\* no output and no standard error, rejected with the timed-out error naming 5.
C1_Witness ==
    \E j \in Jobs :
        /\ job[j].exit = "SIGTERM"
        /\ job[j].errors = <<>>
        /\ job[j].outputFile \notin fs
        /\ "timeout" \in DOMAIN job[j].options
        /\ job[j].options.timeout = 5
        /\ job[j].conversion = Rejected(NoResultError(5))

\* C2, as claimed: an html job that has resolved has resolved with the path of
\* the zip archive, and from then on its output directory does not exist.
C2_HtmlDirectoryGoneWhenResolved ==
    \A j \in Jobs :
        (IsHtml(job[j].options) /\ job[j].conversion.state = "resolved")
            => /\ job[j].conversion.value.base = job[j].inputFile.name \o ".zip"
               /\ job[j].outputDirPath \notin fs

\* C3: the promise of a job that is not html is settled by the exit of the
\* process and by nothing else; it resolves, with the path of the output file,
\* exactly when no standard error was captured and the output file exists; with
\* standard error captured it is rejected with the captured text, the output
\* file existing or not; the exit code changes nothing.
C3_NonHtmlOutcome ==
    [][\A j \in Jobs : ~IsHtml(job'[j].options) =>
        /\ job'[j].conversion # job[j].conversion => Exits(j) \/ job[j].child = "none"
        /\ Exits(j) =>
            /\ job'[j].conversion.state = "resolved"
                    <=> (job[j].errors = <<>> /\ job[j].outputFile \in fs)
            /\ job'[j].conversion.state = "resolved"
                    => job'[j].conversion.value = job[j].outputFile
            /\ job[j].errors # <<>>
                    => job'[j].conversion =
                        Rejected([kind |-> "stderr", timeout |-> 0,
                                  text |-> BufferConcat(job[j].errors)])
            /\ job'[j].conversion.state # "pending"]_vars

\* C3, witness: a job that is not html whose process exited with a positive
\* code, with no standard error and with its output file, and that resolved.
C3_Witness ==
    \E j \in Jobs :
        /\ ~IsHtml(job[j].options)
        /\ job[j].exit = "code1"
        /\ job[j].errors = <<>>
        /\ job[j].conversion = Resolved(job[j].outputFile)

\* C4: once the promise of a job is rejected, killSoffice has been called for
\* it or the reaction that calls it is queued, and it has been called before a
\* handler of the caller is run with the rejection.
C4_ReaperBeforeCaller ==
    \A j \in Jobs :
        /\ job[j].conversion.state = "rejected"
            => \/ job[j].reaper > 0
               \/ \E i \in 1..Len(microtasks) :
                    microtasks[i] = [job |-> j, handler |-> "killSoffice"]
        /\ job[j].observed = "rejected" => job[j].reaper > 0

\* C4, witness: the caller's handler has been run with the rejection of a job,
\* after killSoffice was called.
C4_Witness ==
    \E j \in Jobs : job[j].observed = "rejected" /\ job[j].reaper = 1

\* C18: the handler of 'exit' of a job runs at most once, and a promise that is
\* settled stays as it is; the timeout guard firing after the process has exited
\* leaves the process exited and the promise as it was, and queues no reaction.
C18_ExitHandledOnce ==
    [][\A j \in Jobs :
        /\ job[j].child = "exited" => (job'[j].child = "exited" /\ job'[j].exit = job[j].exit)
        /\ job[j].conversion.state # "pending" => job'[j].conversion = job[j].conversion
        /\ (job[j].child = "exited" /\ job[j].timer = "armed" /\ job'[j].timer = "fired")
                => (job'[j].conversion = job[j].conversion /\ microtasks' = microtasks)]_vars

\* C18, witness: the timeout guard has fired for a job whose process had exited
\* with code 0 and whose promise is resolved.
C18_Witness ==
    \E j \in Jobs :
        /\ job[j].timer = "fired"
        /\ job[j].exit = "code0"
        /\ job[j].conversion.state = "resolved"

\* C12, as claimed: in an html job whose process exited with no standard error
\* and with its output file, a failure of the archive or of the removal of the
\* directory does not make the job fail: after it the promise is not rejected,
\* and it is not left pending.
C12_ArchiveFailureNeverFailsJob ==
    \A j \in Jobs :
        (job[j].archive = "failed" \/ job[j].rimraf = "failed")
            => job[j].conversion.state = "resolved"

\* C14, as claimed: every job whose converter was spawned eventually settles,
\* html or not.
C14_EveryJobSettles ==
    \A j \in Jobs :
        (job[j].child # "none") ~> (job[j].conversion.state # "pending")

-----------------------------------------------------------------------------
(* Properties of calls of convert that share the temporary directory *)

\* The output name of a job: path.parse(options.output || inputFile).name.
OutputName(j) ==
    IF "output" \in DOMAIN job[j].options THEN job[j].options.output.name
    ELSE job[j].inputFile.name

\* A job is under way: its process has not exited, or its archive is being
\* written, or its directory is being removed.
UnderWay(j) ==
    \/ job[j].child \in {"running", "killed"}
    \/ job[j].archive = "writing"
    \/ job[j].rimraf = "running"

\* The paths a job has written, checked or removed.
TouchedPaths(j) == {t.path : t \in job[j].touched}

\* C11, as claimed: two jobs under way at once whose output names differ have
\* touched no common path, whatever their formats and input files.
C11_CollideOnlyOnSameOutputName ==
    \A j \in Pool, k \in Pool :
        (j # k /\ UnderWay(j) /\ UnderWay(k) /\ OutputName(j) # OutputName(k))
            => TouchedPaths(j) \cap TouchedPaths(k) = {}

\* C16, as claimed: the process lookup of the reaper run that the failure of
\* one job started leaves the soffice.bin worker of every other job whose
\* process has not exited as it was.
C16_ReaperSparesOtherJobs ==
    [][\A i \in Pool, k \in Pool :
        (i # k /\ job'[i].reaped > job[i].reaped /\ job[k].child \in {"running", "killed"})
            => job'[k].soffice = job[k].soffice]_vars

\* C19, as claimed: a job that has resolved is one whose own process wrote its
\* output file.
C19_ResolvedOnlyOnOwnOutput ==
    \A j \in Pool :
        job[j].conversion.state = "resolved"
            => [path |-> job[j].outputFile, how |-> "write"] \in job[j].touched

-----------------------------------------------------------------------------
(* Properties of convertToStream *)

\* The error events among the events of a stream.
ErrorEvents(events) == SelectSeq(events, LAMBDA e : e.event = "error")

\* C5, as claimed: standard error never ends the job otherwise than by an error
\* event; when the process exits with a positive code, or after a chunk of
\* standard error, the stream emits one error event whose payload is all the
\* standard error received.
C5_StreamErrorCarriesStderr ==
    [][/\ node' = "up"
       /\ (/\ stream.child = "running"
           /\ stream'.child = "exited"
           /\ (stream'.exit = "code1" \/ stream.stderr # <<>>))
            => ErrorEvents(stream'.output) = <<[event |-> "error",
                                                payload |-> BufferConcat(stream.stderr)]>>]_vars

\* C15, as claimed: the stream emits its error event only when every chunk the
\* process wrote on standard output has been passed on, and no data event comes
\* after the error event.
C15_NoDataAfterError ==
    /\ [][ErrorEvents(stream'.output) # ErrorEvents(stream.output)
            => stream.piped = stream.written]_vars
    /\ [](\A i \in 1..Len(stream.output), k \in 1..Len(stream.output) :
            (i < k /\ stream.output[i].event = "error") => stream.output[k].event # "data")

-----------------------------------------------------------------------------
(* Properties of parseUrlCommand *)

\* No entry of the catalog has this long or short name.
NoEntryNamed(name) ==
    \A i \in 1..Len(thisOptions.list) :
        thisOptions.list[i].option # name /\ thisOptions.list[i].short # name

\* parseUrlCommand fails in this step with the error naming this segment.
FailsNaming(name) == ppc' = "thrown" /\ thrown' = "invalid option '" \o name \o "'"

\* C6, as claimed: whenever the segment at the place of an option name matches
\* no entry of the catalog, parsing fails at once with the error naming it.
C6_UnmatchedSegmentFails ==
    [][(ppc = "loop" /\ option # JsUndefined /\ NoEntryNamed(option))
            => FailsNaming(option)]_vars

\* C6, amended: whenever a segment that is not empty, at the place of an option
\* name, matches no entry of the catalog, parsing fails at once with the error
\* naming it, and returns nothing; an empty segment there ends the parsing.
C6_UnmatchedNonEmptySegmentFails ==
    [][/\ (ppc = "loop" /\ option \notin {JsUndefined, ""} /\ NoEntryNamed(option))
            => FailsNaming(option)
       /\ (ppc = "loop" /\ option = "") => ppc' = "returned"
       /\ ppc = "thrown" => ppc' # "returned"]_vars

\* C6, witness: parsing failed on bogus after arguments had been pushed.
C6_Witness ==
    /\ ppc = "thrown"
    /\ thrown = "invalid option 'bogus'"
    /\ args # <<>>

\* The entry of the format option, when the segment is its long or short name.
IsFormatName(name) ==
    \E i \in 1..Len(thisOptions.list) :
        /\ thisOptions.list[i].option = "format"
        /\ name \in {"format", thisOptions.list[i].short}

RECURSIVE SuppliedFormat(_, _)
SuppliedFormat(segs, last) ==
    IF segs = <<>> \/ Head(segs) = "" \/ NoEntryNamed(Head(segs)) THEN last
    ELSE LET value == IF Len(segs) = 1 THEN JsUndefined ELSE segs[2]
             rest == IF Len(segs) = 1 THEN <<>> ELSE Tail(Tail(segs))
         IN  SuppliedFormat(rest, IF IsFormatName(Head(segs)) THEN value ELSE last)

\* C8, as claimed: a Parsed Command has options.format: the value the caller
\* gave (the last one) when the caller gave one, pdf otherwise; the empty command gives no
\* arguments and the options {format: 'pdf'}.
C8_FormatAsSupplied ==
    ppc = "returned" =>
        /\ "format" \in DOMAIN options
        /\ options["format"] =
            (LET given == SuppliedFormat(Split(commands), JsUndefined)
             IN  IF given = JsUndefined THEN "pdf" ELSE given)
        /\ commands = <<>> => (args = <<>> /\ options = [format |-> "pdf"])

\* C8, amended: a Parsed Command has options.format: the value of the last
\* format option of the command when that value is not empty, pdf otherwise (no
\* format option, or a last one whose value is empty or missing); the empty
\* command gives no arguments and the options {format: 'pdf'}.
C8_FormatAsSuppliedUnlessEmpty ==
    ppc = "returned" =>
        /\ "format" \in DOMAIN options
        /\ options["format"] =
            (LET given == SuppliedFormat(Split(commands), JsUndefined)
             IN  IF given \in {JsUndefined, ""} THEN "pdf" ELSE given)
        /\ commands = <<>> => (args = <<>> /\ options = [format |-> "pdf"])

\* C8, witness: format with an empty value was parsed: the empty value was
\* pushed and options.format is pdf.
C8_Witness ==
    /\ ppc = "returned"
    /\ args = <<"--format", "">>
    /\ options = [format |-> "pdf"]

\* The entry of the catalog a segment names: the first with that long or short name.
EntryNamed(name) ==
    thisOptions.list[CHOOSE i \in 1..Len(thisOptions.list) :
        /\ thisOptions.list[i].option = name \/ thisOptions.list[i].short = name
        /\ \A k \in 1..(i - 1) :
              thisOptions.list[k].option # name /\ thisOptions.list[k].short # name]

\* The segments after an option and, when it takes one, its value.
AfterOption(segs) ==
    IF EntryNamed(Head(segs)).hasValue /\ Len(segs) > 1 THEN Tail(Tail(segs)) ELSE Tail(segs)

\* Every place of an option name in these segments holds a name of the catalog.
RECURSIVE WellFormed(_)
WellFormed(segs) ==
    \/ segs = <<>>
    \/ /\ ~NoEntryNamed(Head(segs))
       /\ WellFormed(AfterOption(segs))

\* The options well-formed segments name.
RECURSIVE NumOptions(_)
NumOptions(segs) == IF segs = <<>> THEN 0 ELSE 1 + NumOptions(AfterOption(segs))

\* Those of them whose entry has hasValue = true.
RECURSIVE NumValued(_)
NumValued(segs) ==
    IF segs = <<>> THEN 0
    ELSE (IF EntryNamed(Head(segs)).hasValue THEN 1 ELSE 0) + NumValued(AfterOption(segs))

\* C9: on a command whose places of option names all hold names of the catalog,
\* parsing does not fail, and the arguments returned are as many as the options
\* consumed plus those of them that take a value.
C9_ArgsLength ==
    (ppc # "idle" /\ WellFormed(Split(commands))) =>
        /\ ppc # "thrown"
        /\ ppc = "returned" =>
            Len(args) = NumOptions(Split(commands)) + NumValued(Split(commands))

\* C9, witness: a command of two options was parsed into four arguments, the
\* last value missing.
C9_Witness ==
    /\ ppc = "returned"
    /\ WellFormed(Split(commands))
    /\ Len(args) = 4
    /\ args[4] = JsUndefined

\* C10, as claimed: a Parsed Command is returned only once the catalog is built.
C10_ParsedOnlyWhenReady ==
    ppc = "returned" => (ready = "fulfilled" /\ thisOptions.defined)

\* C10, amended: a Parsed Command of a command whose first segment is not empty
\* is returned only once the catalog is built; a command that is empty or
\* starts with a slash is parsed at any time, into no arguments.
C10_NonEmptyParsedOnlyWhenReady ==
    /\ (ppc = "returned" /\ Split(commands)[1] # "")
            => (ready = "fulfilled" /\ thisOptions.defined)
    /\ (ppc = "returned" /\ Split(commands)[1] = "") => args = <<>>

\* C10, witness: a command that names an option was parsed, the catalog built.
C10_Witness ==
    /\ ppc = "returned"
    /\ args # <<>>
    /\ ready = "fulfilled"

\* C13, as claimed: whenever parseUrlCommand returns a Parsed Command, every
\* segment of the command has been taken off the list, as an option name or as
\* the value of an option: no segment that holds a character is left over.
C13_EverySegmentConsumed ==
    ppc = "returned" => \A i \in 1..Len(list) : list[i] = ""

\* The help lines that hold a name and a description and no "=value" part.
LinesWithoutValue ==
    {i \in 1..Len(helpText) :
        /\ helpText[i].lead # ""
        /\ helpText[i].long # ""
        /\ helpText[i].value = ""
        /\ helpText[i].message # ""}

\* C17, as claimed: a help line that holds a name and a description and no
\* "=value" part gives a descriptor with hasValue = false, and parseUrlCommand
\* accepts the option: it does not fail naming it.
C17_ValueMarkerOptional ==
    \A i \in LinesWithoutValue :
        /\ \E k \in 1..Len(thisOptions.list) :
                /\ thisOptions.list[k].option = helpText[i].long
                /\ thisOptions.list[k].hasValue = FALSE
        /\ ~(ppc = "thrown" /\ thrown = "invalid option '" \o helpText[i].long \o "'")

\* The tokens that are flags: a segment after one dash or two.
IsFlagToken(token) == \E seg \in Segments : token \in {"-" \o seg, "--" \o seg}

\* The flags of the entries of the catalog, of the public ones only or of all.
CatalogFlags(publicOnly) ==
    UNION {{"--" \o thisOptions.list[k].option, "-" \o thisOptions.list[k].short} :
            k \in {i \in 1..Len(thisOptions.list) : ~publicOnly \/ thisOptions.list[i].isPublic}}

\* C20, as claimed: every flag among the arguments of a Parsed Command is the
\* flag of a catalog entry with isPublic = true.
C20_OnlyPublicFlags ==
    ppc = "returned" =>
        \A i \in 1..Len(args) : IsFlagToken(args[i]) => args[i] \in CatalogFlags(TRUE)

\* C20, amended: every flag among the arguments of a Parsed Command is the
\* flag of a catalog entry, public or not, under the long or the short name the
\* caller wrote; the parser does not look at isPublic.
C20_OnlyCatalogFlags ==
    ppc = "returned" =>
        \A i \in 1..Len(args) : IsFlagToken(args[i]) => args[i] \in CatalogFlags(FALSE)

\* C20, witness: a command naming timeout, which is in the catalog and not
\* public, was parsed into --timeout and its value.
C20_Witness ==
    /\ ppc = "returned"
    /\ Len(args) = 2
    /\ args[1] = "--timeout"
    /\ \E k \in 1..Len(thisOptions.list) :
            thisOptions.list[k].option = "timeout" /\ ~thisOptions.list[k].isPublic

=============================================================================
